---- MODULE Spec2Model ----
(***************************************************************************)
(* Model of src/pnode_monitor.py: the PNodeMonitor object, the two files   *)
(* it keeps on disk and the steps of run_check (fetch with retries and     *)
(* majority consensus, analysis against the previous snapshot, delivery,   *)
(* conditional persistence).                                               *)
(***************************************************************************)
EXTENDS Integers, Sequences, FiniteSets, TLC

\* ------------------------------------------------------------------ bounds
MaxChecks == 2                 \* run_check invocations in one behaviour
MaxIds == 8                    \* identifiers in the reports given to format_message
Nodes == 1..3                  \* the node identifiers the registry can report

\* --------------------------------------------------------- program constants
retries == 3                   \* get_nodes_with_retry(retries=3)
MAX_NEW_PERCENTAGE == 50
MAX_OFFLINE_PERCENTAGE == 50
MAX_SHOWN == 5                 \* sorted(...)[:5] in format_message

VARIABLES
    previous_nodes,   \* self.previous_nodes
    first_run,        \* self.first_run
    state_file,       \* content of pnode_state.json
    backup_file,      \* content of pnode_state.json.backup
    pc,               \* position of the process inside run_check
    checks,           \* number of run_check invocations so far
    attempt,          \* loop index of get_nodes_with_retry
    all_results,      \* all_results of get_nodes_with_retry
    current_nodes,    \* argument of the last analyze_changes (current_nodes of run_check)
    stats,            \* result of the last analyze_changes (stats of run_check)
    validated,        \* whether the last analyze_changes called validate_changes
    message,          \* message of run_check
    sends,            \* webhook posts made by the current check
    sent,             \* outcome of the last webhook post
    save_called,      \* whether the current check called save_state
    io,               \* outcome of the file operations of the last save_state
    \* history
    last,             \* argument and result of the analyze_changes before the last one
    analyzed,         \* analyze_changes was called and the snapshot not assigned since
    repeat,           \* the last analyze_changes repeated the one before it:
                      \*   same argument, no snapshot assignment in between
    last_saved        \* the last non-empty set a save_state was given and wrote

vars == <<previous_nodes, first_run, state_file, backup_file, pc, checks,
          attempt, all_results, current_nodes, stats, validated, message,
          sends, sent, save_called, io, last, analyzed, repeat, last_saved>>

disk == <<state_file, backup_file, last_saved>>
monitor == <<previous_nodes, first_run>>
delivery == <<message, sends, sent>>
history == <<last, analyzed, repeat>>

\* ------------------------------------------------------------- conversions
\* list(s) of a Python set: the elements in some order, each once.
RECURSIVE list(_)
list(S) ==
    IF S = {} THEN <<>>
    ELSE LET x == CHOOSE y \in S : \A z \in S : y >= z
         IN  <<x>> \o list(S \ {x})

\* set(l) of a Python list.
set(l) == {l[i] : i \in DOMAIN l}

\* sorted(l): ascending.
RECURSIVE sorted(_)
sorted(l) ==
    IF l = <<>> THEN <<>>
    ELSE LET i == CHOOSE j \in DOMAIN l : \A k \in DOMAIN l : l[j] <= l[k]
         IN  <<l[i]>> \o sorted(SubSeq(l, 1, i - 1) \o SubSeq(l, i + 1, Len(l)))

\* ------------------------------------------------------------------- files
Absent == [kind |-> "absent", nodes |-> <<>>]
\* a file whose content cannot be read or is not the expected JSON
Corrupt == [kind |-> "corrupt", nodes |-> <<>>]
\* json.dump({'nodes': l})
Json(l) == [kind |-> "json", nodes |-> l]

\* A file operation succeeds, or open() raises and the file stays as it was.
IOOutcomes == {"ok", "failed"}
NoIO == [backup |-> "none", write |-> "none"]

\* load_state without the "if loaded_nodes" test of line 33
load_state_adopts_empty(file) ==
    IF file.kind = "json"
    THEN [previous_nodes |-> set(file.nodes), first_run |-> FALSE]
    ELSE [previous_nodes |-> {}, first_run |-> TRUE]

\* load_state without line 36
load_state_flag_stays(file) ==
    IF file.kind = "json" /\ set(file.nodes) # {}
    THEN [previous_nodes |-> set(file.nodes), first_run |-> TRUE]
    ELSE [previous_nodes |-> {}, first_run |-> TRUE]

\* load_state on a freshly constructed monitor (previous_nodes = set(),
\* first_run = True): the fields after the call.
load_state(file) ==
    IF file.kind = "json" /\ set(file.nodes) # {}
    THEN [previous_nodes |-> set(file.nodes), first_run |-> FALSE]
    ELSE [previous_nodes |-> {}, first_run |-> TRUE]

\* save_state that makes the backup but leaves an existing state file as it is
save_state_keep(nodes, file, backup, b, w) ==
    IF nodes = {} THEN [state_file |-> file, backup_file |-> backup]
    ELSE [backup_file |->
              IF file.kind # "absent" /\ b = "ok" THEN file ELSE backup,
          state_file |->
              IF w = "ok" /\ file.kind = "absent" THEN Json(list(nodes)) ELSE file]

\* save_state without the "if nodes" guard of line 48
save_state_no_guard(nodes, file, backup, b, w) ==
    [backup_file |->
         IF file.kind # "absent" /\ b = "ok" THEN file ELSE backup,
     state_file |->
         IF w = "ok" THEN Json(list(nodes)) ELSE file]

\* save_state whose lines 58-59 are inside the try of line 53, so that a
\* failed backup copy skips the write
save_state_backup_blocks(nodes, file, backup, b, w) ==
    IF nodes = {} THEN [state_file |-> file, backup_file |-> backup]
    ELSE [backup_file |->
              IF file.kind # "absent" /\ b = "ok" THEN file ELSE backup,
          state_file |->
              IF w = "ok" /\ (file.kind = "absent" \/ b = "ok")
              THEN Json(list(nodes)) ELSE file]

\* save_state(nodes): the two files after the call; b and w are the outcomes
\* of the backup copy and of the write of the state file.
save_state(nodes, file, backup, b, w) ==
    IF nodes = {} THEN [state_file |-> file, backup_file |-> backup]
    ELSE [backup_file |->
              IF file.kind # "absent" /\ b = "ok" THEN file ELSE backup,
          state_file |->
              IF w = "ok" THEN Json(list(nodes)) ELSE file]

\* ------------------------------------------------------------------- fetch
\* What one requests.get + raise_for_status + json() + .get('pods') + set()
\* can do: return a set, raise RequestException, raise JSONDecodeError, or
\* raise something else (a JSON body that is no object, a 'pods' value that
\* is no list of hashable values).
Payloads == {list(S) : S \in SUBSET Nodes}
Outcomes ==
    [kind : {"ok"}, pods : Payloads]
    \cup [kind : {"request_error", "json_error", "other_error"}, pods : {<<>>}]

\* get_nodes_with_retry with the threshold of line 117 one too low
get_nodes_with_retry_half(results) ==
    IF results = <<>> THEN {}
    ELSE IF \A i \in DOMAIN results : results[i] = {} THEN {}
    ELSE IF Len(results) = 1 THEN results[1]
    ELSE {node \in UNION {results[i] : i \in DOMAIN results} :
             Cardinality({i \in DOMAIN results : node \in results[i]})
                 >= Len(results) \div 2}

\* get_nodes_with_retry without lines 104-105, its threshold the "at least
\* 2 results" of the comment of line 110
get_nodes_with_retry_two(results) ==
    IF results = <<>> THEN {}
    ELSE IF \A i \in DOMAIN results : results[i] = {} THEN {}
    ELSE {node \in UNION {results[i] : i \in DOMAIN results} :
             Cardinality({i \in DOMAIN results : node \in results[i]}) >= 2}

\* lines 94-121: the reduction of all_results to one set
get_nodes_with_retry(results) ==
    IF results = <<>> THEN {}
    ELSE IF \A i \in DOMAIN results : results[i] = {} THEN {}
    ELSE IF Len(results) = 1 THEN results[1]
    ELSE LET all_seen_nodes == UNION {results[i] : i \in DOMAIN results}
             appearances(node) ==
                 Cardinality({i \in DOMAIN results : node \in results[i]})
         IN  {node \in all_seen_nodes :
                 appearances(node) >= (Len(results) \div 2) + 1}

\* ---------------------------------------------------------------- analysis
\* validate_changes with >= for > in lines 142 and 146
validate_changes_ge(fr, previous, cur, new_nodes, offline_nodes) ==
    IF fr THEN TRUE
    ELSE LET total_previous == Cardinality(previous)
         IN  IF total_previous = 0 THEN TRUE
             ELSE IF Cardinality(new_nodes) * 100 >= MAX_NEW_PERCENTAGE * total_previous
                  THEN FALSE
             ELSE IF Cardinality(offline_nodes) * 100 >= MAX_OFFLINE_PERCENTAGE * total_previous
                  THEN FALSE
             ELSE TRUE

\* validate_changes without lines 142-144
validate_changes_new_unchecked(fr, previous, cur, new_nodes, offline_nodes) ==
    IF fr THEN TRUE
    ELSE LET total_previous == Cardinality(previous)
         IN  IF total_previous = 0 THEN TRUE
             ELSE IF Cardinality(offline_nodes) * 100 > MAX_OFFLINE_PERCENTAGE * total_previous
                  THEN FALSE
             ELSE TRUE

\* validate_changes without lines 146-148
validate_changes_offline_unchecked(fr, previous, cur, new_nodes, offline_nodes) ==
    IF fr THEN TRUE
    ELSE LET total_previous == Cardinality(previous)
         IN  IF total_previous = 0 THEN TRUE
             ELSE IF Cardinality(new_nodes) * 100 > MAX_NEW_PERCENTAGE * total_previous
                  THEN FALSE
             ELSE TRUE

\* lines 123-150
validate_changes(fr, previous, cur, new_nodes, offline_nodes) ==
    IF fr THEN TRUE
    ELSE LET total_previous == Cardinality(previous)
         IN  IF total_previous = 0 THEN TRUE
             ELSE IF Cardinality(new_nodes) * 100 > MAX_NEW_PERCENTAGE * total_previous
                  THEN FALSE
             ELSE IF Cardinality(offline_nodes) * 100 > MAX_OFFLINE_PERCENTAGE * total_previous
                  THEN FALSE
             ELSE TRUE

\* A report; a key the Python dict does not carry reads as 0 / FALSE.
Report(total, prev_total, new, offline, is_first, skipped, zero) ==
    [total_nodes |-> total, previous_total_nodes |-> prev_total,
     new_nodes |-> new, offline_nodes |-> offline,
     is_first_run |-> is_first, skipped_update |-> skipped,
     api_error_drop_to_zero |-> zero]

\* no report yet
NoStats == Report(-1, 0, <<>>, <<>>, FALSE, FALSE, FALSE)

\* analyze_changes with one of three slips: zero_only drops "and
\* self.previous_nodes" from line 155, keep_flag drops line 168, rearm sets
\* the first-run flag again when validation fails.
analyze_changes_slip(fr, previous, cur, zero_only, keep_flag, rearm) ==
    IF cur = {} /\ (zero_only \/ previous # {})
    THEN [stats |-> Report(0, Cardinality(previous), <<>>, list(previous),
                           FALSE, FALSE, TRUE),
          first_run |-> fr, validated |-> FALSE]
    ELSE IF fr
    THEN [stats |-> Report(Cardinality(cur), 0, list(cur), <<>>,
                           TRUE, FALSE, FALSE),
          first_run |-> keep_flag, validated |-> FALSE]
    ELSE LET new_nodes == cur \ previous
             offline_nodes == previous \ cur
         IN  IF ~validate_changes(fr, previous, cur, new_nodes, offline_nodes)
             THEN [stats |-> Report(Cardinality(previous), 0, <<>>, <<>>,
                                    FALSE, TRUE, FALSE),
                   first_run |-> (fr \/ rearm), validated |-> TRUE]
             ELSE [stats |-> Report(Cardinality(cur), 0, list(new_nodes),
                                    list(offline_nodes), FALSE, FALSE, FALSE),
                   first_run |-> fr, validated |-> TRUE]

analyze_changes_zero_only(fr, previous, cur) ==
    analyze_changes_slip(fr, previous, cur, TRUE, FALSE, FALSE)

analyze_changes_keep_flag(fr, previous, cur) ==
    analyze_changes_slip(fr, previous, cur, FALSE, TRUE, FALSE)

analyze_changes_rearm(fr, previous, cur) ==
    analyze_changes_slip(fr, previous, cur, FALSE, FALSE, TRUE)

\* analyze_changes whose line 191 has the total of line 183
analyze_changes_stale_total(fr, previous, cur) ==
    IF cur = {} /\ previous # {}
    THEN [stats |-> Report(0, Cardinality(previous), <<>>, list(previous),
                           FALSE, FALSE, TRUE),
          first_run |-> fr, validated |-> FALSE]
    ELSE IF fr
    THEN [stats |-> Report(Cardinality(cur), 0, list(cur), <<>>,
                           TRUE, FALSE, FALSE),
          first_run |-> FALSE, validated |-> FALSE]
    ELSE LET new_nodes == cur \ previous
             offline_nodes == previous \ cur
         IN  IF ~validate_changes(fr, previous, cur, new_nodes, offline_nodes)
             THEN [stats |-> Report(Cardinality(previous), 0, <<>>, <<>>,
                                    FALSE, TRUE, FALSE),
                   first_run |-> fr, validated |-> TRUE]
             ELSE [stats |-> Report(Cardinality(previous), 0, list(new_nodes),
                                    list(offline_nodes), FALSE, FALSE, FALSE),
                   first_run |-> fr, validated |-> TRUE]

\* analyze_changes(current_nodes): the report, the first-run flag after the
\* call, and whether validate_changes was called.
analyze_changes(fr, previous, cur) ==
    IF cur = {} /\ previous # {}
    THEN [stats |-> Report(0, Cardinality(previous), <<>>, list(previous),
                           FALSE, FALSE, TRUE),
          first_run |-> fr, validated |-> FALSE]
    ELSE IF fr
    THEN [stats |-> Report(Cardinality(cur), 0, list(cur), <<>>,
                           TRUE, FALSE, FALSE),
          first_run |-> FALSE, validated |-> FALSE]
    ELSE LET new_nodes == cur \ previous
             offline_nodes == previous \ cur
         IN  IF ~validate_changes(fr, previous, cur, new_nodes, offline_nodes)
             THEN [stats |-> Report(Cardinality(previous), 0, <<>>, <<>>,
                                    FALSE, TRUE, FALSE),
                   first_run |-> fr, validated |-> TRUE]
             ELSE [stats |-> Report(Cardinality(cur), 0, list(new_nodes),
                                    list(offline_nodes), FALSE, FALSE, FALSE),
                   first_run |-> fr, validated |-> TRUE]

\* The status tag of a report, as format_message and run_check branch on it.
Status(s) ==
    IF s.api_error_drop_to_zero THEN "critical-zero"
    ELSE IF s.is_first_run THEN "first-run"
    ELSE IF s.skipped_update THEN "suspicious-skip"
    ELSE "normal"

\* ------------------------------------------------------------------ format
\* the first five of the list as it comes, without sorted()
Shown_unsorted(l) == SubSeq(l, 1, IF Len(l) < MAX_SHOWN THEN Len(l) ELSE MAX_SHOWN)

\* sorted(l)[:5] and the N of "... and N more" (0: no such line)
Shown(l) == SubSeq(sorted(l), 1, IF Len(l) < MAX_SHOWN THEN Len(l) ELSE MAX_SHOWN)
More(l) == IF Len(l) > MAX_SHOWN THEN Len(l) - MAX_SHOWN ELSE 0

NoMessage == [head |-> "none", count |-> 0,
              new_section |-> FALSE, new_shown |-> <<>>, new_more |-> 0,
              offline_section |-> FALSE, offline_shown |-> <<>>,
              offline_more |-> 0]

\* format_message(stats), without the timestamp: the headline, the count it
\* states, and for each of the two sections whether it is there, the listed
\* identifiers and the "... and N more" count (0: no such line).
format_message(s) ==
    IF s.api_error_drop_to_zero
    THEN [NoMessage EXCEPT !.head = "critical", !.count = s.previous_total_nodes]
    ELSE IF s.is_first_run
    THEN [NoMessage EXCEPT !.head = "initial", !.count = s.total_nodes]
    ELSE IF s.skipped_update
    THEN [NoMessage EXCEPT !.head = "skipped", !.count = s.total_nodes]
    ELSE [head |-> "update", count |-> s.total_nodes,
          new_section |-> s.new_nodes # <<>>,
          new_shown |-> IF s.new_nodes # <<>> THEN Shown(s.new_nodes) ELSE <<>>,
          new_more |-> IF s.new_nodes # <<>> THEN More(s.new_nodes) ELSE 0,
          offline_section |-> s.offline_nodes # <<>>,
          offline_shown |-> IF s.offline_nodes # <<>>
                            THEN Shown(s.offline_nodes) ELSE <<>>,
          offline_more |-> IF s.offline_nodes # <<>>
                           THEN More(s.offline_nodes) ELSE 0]

\* --------------------------------------------------------------- run_check
\* run_check without the early return of lines 259-261
commits_on_zero(s) == ~s.skipped_update

\* run_check without the test of line 264
commits_on_skip(s) == ~s.api_error_drop_to_zero

\* Lines 258-264: whether run_check goes on to lines 265-266.
commits(s) == ~s.api_error_drop_to_zero /\ ~s.skipped_update

NoLast == [stats |-> NoStats, current |-> {}]
NothingSaved == [written |-> FALSE, nodes |-> {}]

\* ------------------------------------------------------------------ states
InitialFiles == {Absent, Corrupt} \cup {Json(l) : l \in Payloads}

\* After __init__: the fields as load_state leaves them.
Init ==
    /\ state_file \in InitialFiles
    /\ backup_file = Absent
    /\ previous_nodes = load_state(state_file).previous_nodes
    /\ first_run = load_state(state_file).first_run
    /\ pc = "idle"
    /\ checks = 0
    /\ attempt = 0
    /\ all_results = <<>>
    /\ current_nodes = {}
    /\ stats = NoStats
    /\ validated = FALSE
    /\ message = NoMessage
    /\ sends = 0
    /\ sent = "none"
    /\ save_called = FALSE
    /\ io = NoIO
    /\ last = NoLast
    /\ analyzed = FALSE
    /\ repeat = FALSE
    /\ last_saved = NothingSaved

\* run_check is entered (by main or by the scheduler).
Start ==
    /\ pc = "idle"
    /\ checks < MaxChecks
    /\ checks' = checks + 1
    /\ pc' = "fetch"
    /\ attempt' = 0
    /\ all_results' = <<>>
    /\ current_nodes' = {}
    /\ stats' = NoStats
    /\ validated' = FALSE
    /\ message' = NoMessage
    /\ sends' = 0
    /\ sent' = "none"
    /\ save_called' = FALSE
    /\ io' = NoIO
    /\ last' = [stats |-> stats, current |-> current_nodes]
    /\ repeat' = FALSE
    /\ UNCHANGED <<monitor, disk, analyzed>>

\* One iteration of the for loop of get_nodes_with_retry (lines 71-92); the
\* last one goes on to lines 94-121 and returns into line 252.
FetchAttempt(o) ==
    /\ pc = "fetch"
    /\ attempt < retries
    /\ IF o.kind = "other_error"
       THEN /\ pc' = "crashed"
            /\ UNCHANGED <<attempt, all_results, current_nodes>>
       ELSE /\ attempt' = attempt + 1
            /\ all_results' = IF o.kind = "ok"
                              THEN Append(all_results, set(o.pods))
                              ELSE all_results
            /\ IF attempt + 1 < retries
               THEN pc' = "fetch" /\ UNCHANGED current_nodes
               ELSE /\ pc' = "analyze"
                    /\ current_nodes' = get_nodes_with_retry(all_results')
    /\ UNCHANGED <<monitor, disk, checks, stats, validated, delivery,
                   save_called, io, history>>

\* Line 254; the locals of get_nodes_with_retry are gone from here on.
Analyze ==
    /\ pc = "analyze"
    /\ LET r == analyze_changes(first_run, previous_nodes, current_nodes)
       IN  /\ stats' = r.stats
           /\ first_run' = r.first_run
           /\ validated' = r.validated
    /\ repeat' = (analyzed /\ current_nodes = last.current)
    /\ analyzed' = TRUE
    /\ attempt' = 0
    /\ all_results' = <<>>
    /\ pc' = "send"
    /\ UNCHANGED <<previous_nodes, disk, checks, current_nodes, delivery,
                   save_called, io, last>>

\* Lines 255-256: format_message, then send_to_webhook, whose post succeeds
\* or raises RequestException (caught).
Send(ok) ==
    /\ pc = "send"
    /\ message' = format_message(stats)
    /\ sends' = sends + 1
    /\ sent' = IF ok THEN "ok" ELSE "failed"
    /\ pc' = "persist"
    /\ UNCHANGED <<monitor, disk, checks, attempt, all_results,
                   current_nodes, stats, validated, save_called, io, history>>

\* Lines 258-266; run_check returns.
Persist(b, w) ==
    /\ pc = "persist"
    /\ IF ~commits(stats)
       THEN /\ b = "ok" /\ w = "ok"
            /\ UNCHANGED <<previous_nodes, disk, analyzed, save_called, io>>
       ELSE /\ previous_nodes' = current_nodes
            /\ analyzed' = FALSE
            /\ save_called' = TRUE
            /\ LET r == save_state(current_nodes, state_file, backup_file, b, w)
               IN  /\ state_file' = r.state_file
                   /\ backup_file' = r.backup_file
                   /\ last_saved' = IF w = "ok" /\ current_nodes # {}
                                    THEN [written |-> TRUE, nodes |-> current_nodes]
                                    ELSE last_saved
            /\ IF current_nodes = {}
               THEN b = "ok" /\ w = "ok" /\ io' = NoIO
               ELSE /\ state_file.kind = "absent" => b = "ok"
                    /\ io' = [backup |-> IF state_file.kind = "absent"
                                         THEN "none" ELSE b,
                              write |-> w]
    /\ pc' = "idle"
    /\ UNCHANGED <<first_run, checks, attempt, all_results, current_nodes,
                   stats, validated, delivery, last, repeat>>

\* The process ends (killed, or by the exception that left run_check) and a
\* new one is started: __init__ and its load_state.
Restart ==
    /\ pc \in {"idle", "crashed", "direct"}
    /\ previous_nodes' = load_state(state_file).previous_nodes
    /\ first_run' = load_state(state_file).first_run
    /\ pc' = "idle"
    /\ attempt' = 0
    /\ all_results' = <<>>
    /\ current_nodes' = {}
    /\ stats' = NoStats
    /\ validated' = FALSE
    /\ message' = NoMessage
    /\ sends' = 0
    /\ sent' = "none"
    /\ save_called' = FALSE
    /\ io' = NoIO
    /\ last' = NoLast
    /\ analyzed' = FALSE
    /\ repeat' = FALSE
    /\ UNCHANGED <<disk, checks>>

Next ==
    \/ Start
    \/ \E o \in Outcomes : FetchAttempt(o)
    \/ Analyze
    \/ \E ok \in BOOLEAN : Send(ok)
    \/ \E b, w \in IOOutcomes : Persist(b, w)
    \/ Restart

Spec == Init /\ [][Next]_vars

\* analyze_changes called on the monitor directly (as a test of the class
\* does), outside run_check; the caller goes on with direct calls only.
AnalyzeCall(c) ==
    /\ pc \in {"idle", "direct"}
    /\ LET r == analyze_changes(first_run, previous_nodes, c)
       IN  /\ stats' = r.stats
           /\ first_run' = r.first_run
           /\ validated' = r.validated
    /\ current_nodes' = c
    /\ last' = [stats |-> stats, current |-> current_nodes]
    /\ repeat' = (analyzed /\ c = current_nodes)
    /\ analyzed' = TRUE
    /\ pc' = "direct"
    /\ message' = NoMessage
    /\ sends' = 0
    /\ sent' = "none"
    /\ save_called' = FALSE
    /\ io' = NoIO
    /\ UNCHANGED <<previous_nodes, disk, checks, attempt, all_results>>

NextDirect ==
    \/ Next
    \/ \E c \in SUBSET Nodes : AnalyzeCall(c)

SpecDirect == Init /\ [][NextDirect]_vars

\* format_message called on a report directly. The reports: of each of the
\* four kinds, their lists over MaxIds identifiers and in the order list()
\* gives them.
Ids == 1..MaxIds
FormatInputs ==
    {Report(Cardinality(p[1]), 0, list(p[1]), list(p[2]), FALSE, FALSE, FALSE) :
        p \in {q \in (SUBSET Ids) \X (SUBSET Ids) : q[1] \cap q[2] = {}}}
    \cup {Report(Cardinality(N), 0, list(N), <<>>, TRUE, FALSE, FALSE) :
              N \in SUBSET Ids}
    \cup {Report(0, Cardinality(O), <<>>, list(O), FALSE, FALSE, TRUE) :
              O \in (SUBSET Ids) \ {{}}}
    \cup {Report(n, 0, <<>>, <<>>, FALSE, TRUE, FALSE) : n \in Ids}

InitFormat ==
    /\ stats \in FormatInputs
    /\ pc = "format"
    /\ message = NoMessage
    /\ state_file = Absent
    /\ backup_file = Absent
    /\ previous_nodes = {}
    /\ first_run = TRUE
    /\ checks = 0
    /\ attempt = 0
    /\ all_results = <<>>
    /\ current_nodes = {}
    /\ validated = FALSE
    /\ sends = 0
    /\ sent = "none"
    /\ save_called = FALSE
    /\ io = NoIO
    /\ last = NoLast
    /\ analyzed = FALSE
    /\ repeat = FALSE
    /\ last_saved = NothingSaved

FormatCall ==
    /\ pc = "format"
    /\ message' = format_message(stats)
    /\ pc' = "formatted"
    /\ UNCHANGED <<monitor, disk, checks, attempt, all_results, current_nodes,
                   stats, validated, sends, sent, save_called, io, history>>

NextFormat == FormatCall

SpecFormat == InitFormat /\ [][NextFormat]_vars

\* ------------------------------------------------------------------ claims
Skipped == {"critical-zero", "suspicious-skip"}
Accepted == {"first-run", "normal"}
Reported == stats # NoStats
Count(x, results) == Cardinality({i \in DOMAIN results : x \in results[i]})

\* C1: when get_nodes_with_retry has returned and at least two attempts gave
\* a set, not all of them empty, the result is exactly the identifiers found
\* in at least floor(n/2)+1 of the n sets.
MajorityConsensus ==
    (/\ pc = "analyze"
     /\ Len(all_results) >= 2
     /\ \E i \in DOMAIN all_results : all_results[i] # {})
    => current_nodes =
           {x \in Nodes :
               Count(x, all_results) >= (Len(all_results) \div 2) + 1}

\* C1 witness: attempts [{1,2},{1,3},{1,2}] gave {1,2}.
MajorityConsensusSeen ==
    /\ pc = "analyze"
    /\ all_results = <<{1, 2}, {1, 3}, {1, 2}>>
    /\ current_nodes = {1, 2}

\* C2: past the first run, with a non-empty snapshot and a non-empty fetched
\* set, the report is suspicious-skip exactly when the new or the offline
\* identifiers are more than 50% of the snapshot; such a report carries the
\* snapshot's size and no new or offline identifiers.
ValidationGate ==
    (/\ pc \in {"send", "persist"}
     /\ ~stats.is_first_run
     /\ previous_nodes # {}
     /\ current_nodes # {})
    => LET P == Cardinality(previous_nodes)
           over == \/ Cardinality(current_nodes \ previous_nodes) * 100 > 50 * P
                   \/ Cardinality(previous_nodes \ current_nodes) * 100 > 50 * P
       IN  /\ (Status(stats) = "suspicious-skip") <=> over
           /\ Status(stats) = "suspicious-skip"
              => /\ stats.total_nodes = P
                 /\ stats.new_nodes = <<>>
                 /\ stats.offline_nodes = <<>>

\* C2 witness: two of a snapshot of three went offline and the report is
\* suspicious-skip with total 3.
ValidationGateSeen ==
    /\ pc = "send"
    /\ Status(stats) = "suspicious-skip"
    /\ Cardinality(previous_nodes) = 3
    /\ Cardinality(previous_nodes \ current_nodes) = 2
    /\ current_nodes \subseteq previous_nodes
    /\ stats.total_nodes = 3

\* C3: the report is critical-zero exactly when the fetched set is empty and
\* the snapshot is not; it carries total 0, nothing new, the whole snapshot
\* as offline and the snapshot's size as previous total.
CriticalZero ==
    pc \in {"send", "persist"}
    => /\ (Status(stats) = "critical-zero")
          <=> (current_nodes = {} /\ previous_nodes # {})
       /\ Status(stats) = "critical-zero"
          => /\ stats.total_nodes = 0
             /\ stats.new_nodes = <<>>
             /\ set(stats.offline_nodes) = previous_nodes
             /\ Len(stats.offline_nodes) = Cardinality(previous_nodes)
             /\ stats.previous_total_nodes = Cardinality(previous_nodes)

\* C3 witness: the snapshot {1,2,3} and an empty fetched set.
CriticalZeroSeen ==
    /\ pc = "send"
    /\ Status(stats) = "critical-zero"
    /\ previous_nodes = {1, 2, 3}
    /\ stats.previous_total_nodes = 3

\* C4: a check that fetches the empty set right after a critical-zero check
\* of the same process is critical-zero again, with the same offline list
\* and previous total, and again persists nothing.
CriticalZeroRefires ==
    (/\ pc \in {"send", "persist", "idle"}
     /\ Reported
     /\ Status(last.stats) = "critical-zero"
     /\ current_nodes = {})
    => /\ Status(stats) = "critical-zero"
       /\ stats.offline_nodes = last.stats.offline_nodes
       /\ stats.previous_total_nodes = last.stats.previous_total_nodes
       /\ pc = "idle" => ~save_called

\* C4 witness: the second critical-zero check in a row is over.
CriticalZeroRefired ==
    /\ pc = "idle"
    /\ checks = 2
    /\ Status(last.stats) = "critical-zero"
    /\ Status(stats) = "critical-zero"
    /\ Len(stats.offline_nodes) = 2

\* C5: no step of a run_check whose report is critical-zero or
\* suspicious-skip changes the snapshot, the state file or the backup, and
\* save_state is not called (the steps before the report never do).
SkippedFrame ==
    [][(\/ pc \in {"fetch", "analyze", "send"}
        \/ pc = "persist" /\ Status(stats) \in Skipped)
       => /\ previous_nodes' = previous_nodes
          /\ state_file' = state_file
          /\ backup_file' = backup_file
          /\ ~save_called']_vars

\* C5 witness: a suspicious-skip check is over, the files as they were.
SkippedFrameSeen ==
    /\ pc = "idle"
    /\ Reported
    /\ Status(stats) = "suspicious-skip"
    /\ ~save_called
    /\ state_file = Json(list(previous_nodes))
    /\ current_nodes # previous_nodes

\* C6: when a run_check whose report is first-run or normal is over, the
\* snapshot is the fetched set, and unless the write of the state file
\* failed, load_state reads the fetched set from the state file.
CommitOnAccepted ==
    (pc = "idle" /\ Reported /\ Status(stats) \in Accepted)
    => /\ previous_nodes = current_nodes
       /\ io.write # "failed"
          => load_state(state_file).previous_nodes = current_nodes

\* C6 witness: a normal check replaced a different snapshot on disk.
CommitOnAcceptedSeen ==
    /\ pc = "idle"
    /\ Status(stats) = "normal"
    /\ io.write = "ok"
    /\ backup_file.kind = "json"
    /\ backup_file # state_file
    /\ state_file = Json(list(current_nodes))
    /\ previous_nodes = current_nodes

\* C7: analyze_changes with the first-run flag set reports first-run, the
\* whole argument as new, nothing offline and the argument's size, does not
\* call validate_changes, and clears the flag.
FirstRun ==
    [][(pc = "analyze" /\ first_run)
       => /\ Status(stats') = "first-run"
          /\ set(stats'.new_nodes) = current_nodes'
          /\ Len(stats'.new_nodes) = Cardinality(current_nodes')
          /\ stats'.offline_nodes = <<>>
          /\ stats'.total_nodes = Cardinality(current_nodes')
          /\ ~validated'
          /\ ~first_run']_vars

\* C7 witness: a first run on the empty set.
FirstRunSeen ==
    /\ pc = "send"
    /\ Status(stats) = "first-run"
    /\ current_nodes = {}
    /\ stats.total_nodes = 0
    /\ ~first_run

\* C8 as stated: an analyze_changes that repeats the one before it (same
\* argument, no snapshot assignment in between) gives the same status.
AnalyzeIdempotent ==
    repeat => Status(stats) = Status(last.stats)

\* C8 amended: ... unless the one before it was the first run.
AnalyzeIdempotentPastFirstRun ==
    (repeat /\ Status(last.stats) # "first-run")
    => Status(stats) = Status(last.stats)

\* C8 witness: two suspicious-skip reports in a row for one argument.
AnalyzeRepeated ==
    /\ pc = "direct"
    /\ repeat
    /\ Status(last.stats) = "suspicious-skip"
    /\ Status(stats) = "suspicious-skip"

\* C9: a new process loads exactly the last non-empty set a save_state
\* wrote, and its first-run flag is clear; save_state of the empty set
\* leaves both files, and what load_state reads, as they were; no step
\* makes the state file an empty node list.
RoundTripLoaded ==
    (pc = "idle" /\ ~Reported /\ last_saved.written)
    => /\ previous_nodes = last_saved.nodes
       /\ ~first_run

SaveEmptyIsNoop ==
    (pc = "persist" /\ save_called' /\ current_nodes = {})
    => /\ state_file' = state_file
       /\ backup_file' = backup_file
       /\ load_state(state_file') = load_state(state_file)

NeverWritesEmpty ==
    state_file' # state_file => state_file' # Json(<<>>)

SnapshotRoundTrip ==
    []RoundTripLoaded /\ [][SaveEmptyIsNoop /\ NeverWritesEmpty]_vars

\* C9 witness: a process restarted after a save of two identifiers.
SnapshotRoundTripSeen ==
    /\ pc = "idle"
    /\ ~Reported
    /\ last_saved.written
    /\ Cardinality(last_saved.nodes) = 2
    /\ previous_nodes = last_saved.nodes
    /\ ~first_run

\* C11: right after construction (no check reported yet in this process) the
\* process is running, and: a state file that is missing, unreadable or not
\* the expected JSON, or that holds an empty node list, leaves the snapshot
\* empty and the first-run flag set; any other state file makes its node set
\* the snapshot and clears the flag.
LoadStateTotal ==
    (pc = "idle" /\ ~Reported)
    => IF state_file.kind \in {"absent", "corrupt"} \/ state_file.nodes = <<>>
       THEN previous_nodes = {} /\ first_run
       ELSE /\ previous_nodes = {state_file.nodes[i] : i \in DOMAIN state_file.nodes}
            /\ previous_nodes # {}
            /\ ~first_run

\* C11 witness: a process restarted, after a check, onto a state file that
\* holds an empty node list.
LoadStateTotalSeen ==
    /\ pc = "idle"
    /\ ~Reported
    /\ checks >= 1
    /\ state_file = Json(<<>>)
    /\ previous_nodes = {}
    /\ first_run

\* C12: when save_state is given a non-empty set S and finds a state file
\* with content X: if the backup copy succeeds the backup file is X
\* afterwards; if the write succeeds the state file holds S afterwards,
\* whether the backup copy succeeded or failed; and when both succeed and X
\* was itself written by a save, the backup holds the set that save wrote.
BackupOnOverwrite ==
    [][(/\ pc = "persist"
        /\ save_called'
        /\ current_nodes # {}
        /\ state_file.kind # "absent")
       => /\ io'.backup = "ok" => backup_file' = state_file
          /\ io'.write = "ok"
             => /\ state_file' = Json(list(current_nodes))
                /\ load_state(state_file').previous_nodes = current_nodes
          /\ (io'.backup = "failed" /\ io'.write = "ok")
             => /\ state_file'.kind = "json"
                /\ {state_file'.nodes[i] : i \in DOMAIN state_file'.nodes}
                       = current_nodes
                /\ backup_file' = backup_file
          /\ (io'.backup = "ok" /\ io'.write = "ok" /\ last_saved.written)
             => /\ load_state(backup_file').previous_nodes = last_saved.nodes
                /\ last_saved'.nodes = current_nodes]_vars

\* C12 witness: the first save made the backup of the initial file [2,1]; the
\* second save's backup copy failed and its write replaced the state file
\* all the same.
BackupOnOverwriteSeen ==
    /\ pc = "idle"
    /\ checks = 2
    /\ save_called
    /\ io = [backup |-> "failed", write |-> "ok"]
    /\ backup_file = Json(<<2, 1>>)
    /\ current_nodes = {2, 3}
    /\ state_file = Json(list(current_nodes))

\* C13 as stated: every run_check makes exactly one delivery attempt, after
\* the analysis and before the persistence decision, however the check ends
\* and whether or not the post succeeds; a check whose report is first-run
\* or normal makes the fetched set the snapshot whatever the post did.
OneDeliveryPerCheck ==
    /\ pc \in {"fetch", "analyze", "send"} => sends = 0
    /\ pc = "persist" => sends = 1 /\ ~save_called
    /\ (pc = "idle" /\ Reported) => sends = 1
    /\ pc = "crashed" => sends = 1
    /\ (pc = "idle" /\ Reported /\ Status(stats) \in Accepted)
       => previous_nodes = current_nodes

\* What C14 says of one section: l the report's list, the other three what
\* the message has of it.
Truncated(l, section, shown, more) ==
    LET k == Len(l)
    IN  /\ section <=> k > 0
        /\ k = 0 => shown = <<>> /\ more = 0
        /\ Len(shown) = IF k < 5 THEN k ELSE 5
        /\ \A i, j \in DOMAIN shown : i < j => shown[i] < shown[j]
        /\ \A i \in DOMAIN shown : \E j \in DOMAIN l : l[j] = shown[i]
        /\ \A j \in DOMAIN l :
               (\A i \in DOMAIN shown : shown[i] # l[j])
               => \A i \in DOMAIN shown : shown[i] < l[j]
        /\ more = IF k > 5 THEN k - 5 ELSE 0
        /\ k = 8 => Len(shown) = 5 /\ more = 3

\* C14: in the message of a normal report, the section of a list of k
\* identifiers (new, and likewise offline) is absent when k = 0; otherwise
\* it lists the min(k, 5) smallest identifiers of the list in ascending
\* order, and has the overflow line, stating k - 5, exactly when k > 5;
\* 8 identifiers give 5 listed and "3 more".
MessageTruncation ==
    (pc = "formatted" /\ Status(stats) = "normal")
    => /\ Truncated(stats.new_nodes, message.new_section,
                    message.new_shown, message.new_more)
       /\ Truncated(stats.offline_nodes, message.offline_section,
                    message.offline_shown, message.offline_more)

\* C14 witness: the message of a normal report with 8 new identifiers.
MessageTruncationSeen ==
    /\ pc = "formatted"
    /\ Status(stats) = "normal"
    /\ stats.new_nodes = <<8, 7, 6, 5, 4, 3, 2, 1>>
    /\ message.new_shown = <<1, 2, 3, 4, 5>>
    /\ message.new_more = 3
    /\ ~message.offline_section

\* C15: when get_nodes_with_retry has returned: if no attempt gave a set, or
\* every set the attempts gave is empty, it returned the empty set; if
\* exactly one attempt gave a set, it returned that set.
DegenerateFetch ==
    pc = "analyze"
    => /\ all_results = <<>> => current_nodes = {}
       /\ (\A i \in DOMAIN all_results : all_results[i] = {})
          => current_nodes = {}
       /\ Len(all_results) = 1 => current_nodes = all_results[1]

\* C15 witness: two attempts failed, the third gave {1,2,3}, returned whole.
DegenerateFetchSeen ==
    /\ pc = "analyze"
    /\ attempt = retries
    /\ all_results = <<{1, 2, 3}>>
    /\ current_nodes = {1, 2, 3}

\* C16: a normal report for the snapshot P and the fetched set C has the
\* identifiers of C - P as new and those of P - C as offline, each once, and
\* |C| as total; so no identifier is both new and offline, and
\* |P| + |new| - |offline| is the total.
NormalDiff ==
    (pc \in {"send", "persist"} /\ Status(stats) = "normal")
    => LET new == stats.new_nodes
           offline == stats.offline_nodes
       IN  /\ {new[i] : i \in DOMAIN new} = current_nodes \ previous_nodes
           /\ Len(new) = Cardinality(current_nodes \ previous_nodes)
           /\ {offline[i] : i \in DOMAIN offline}
                  = previous_nodes \ current_nodes
           /\ Len(offline) = Cardinality(previous_nodes \ current_nodes)
           /\ stats.total_nodes = Cardinality(current_nodes)
           /\ \A i \in DOMAIN new, j \in DOMAIN offline : new[i] # offline[j]
           /\ Cardinality(previous_nodes) + Len(new) - Len(offline)
                  = stats.total_nodes

\* C16 witness: the snapshot {1,2} and the fetched set {1,3}.
NormalDiffSeen ==
    /\ pc = "send"
    /\ Status(stats) = "normal"
    /\ previous_nodes = {1, 2}
    /\ current_nodes = {1, 3}
    /\ stats.new_nodes = <<3>>
    /\ stats.offline_nodes = <<2>>
    /\ stats.total_nodes = 2

\* C17: in every state, a set first-run flag means an empty snapshot; so
\* where analyze_changes tests them, the critical-zero condition (empty
\* fetched set, non-empty snapshot) and the first-run condition never both
\* hold; and a check that reports first-run is the first check of its
\* process (no check of the process reported before it) and leaves the flag
\* clear.
FirstRunMeansEmpty ==
    /\ first_run => previous_nodes = {}
    /\ pc = "analyze"
       => ~(first_run /\ current_nodes = {} /\ previous_nodes # {})
    /\ (Reported /\ Status(stats) = "first-run")
       => last.stats = NoStats /\ ~first_run

\* C17 witness: the first check of a process reported first-run, its second
\* check reports normal.
FirstRunMeansEmptySeen ==
    /\ pc = "idle"
    /\ checks = 2
    /\ Status(last.stats) = "first-run"
    /\ Status(stats) = "normal"
    /\ previous_nodes # {}
    /\ ~first_run

\* C18: no step of a process (every step but the start of a new process)
\* makes a non-empty snapshot empty, and a step that replaces a non-empty
\* snapshot P by C is the commit of a run_check with C the fetched set,
\* C # {}, 2|C - P| <= |P| and 2|P - C| <= |P|.
SnapshotTransitions ==
    [][Restart
       \/ (previous_nodes # {}
           => /\ previous_nodes' # {}
              /\ previous_nodes' # previous_nodes
                 => /\ pc = "persist"
                    /\ previous_nodes' = current_nodes
                    /\ 2 * Cardinality(previous_nodes' \ previous_nodes)
                          <= Cardinality(previous_nodes)
                    /\ 2 * Cardinality(previous_nodes \ previous_nodes')
                          <= Cardinality(previous_nodes))]_vars

\* C18 witness: a check has replaced a non-empty snapshot by another one
\* (its report names an identifier gone offline and a new one).
SnapshotTransitionsSeen ==
    /\ pc = "idle"
    /\ save_called
    /\ Status(stats) = "normal"
    /\ stats.new_nodes # <<>>
    /\ stats.offline_nodes # <<>>
    /\ previous_nodes = current_nodes

\* The fetched set C is non-empty and differs from the non-empty snapshot P
\* by more than the 50% gate.
Exceeds(P, C) ==
    /\ P # {}
    /\ C # {}
    /\ \/ 2 * Cardinality(C \ P) > Cardinality(P)
       \/ 2 * Cardinality(P \ C) > Cardinality(P)

GateWithholds ==
    (pc \in {"send", "persist", "idle"} /\ Reported
     /\ Exceeds(previous_nodes, current_nodes))
    => Status(stats) = "suspicious-skip"

WithheldAgain ==
    (Reported /\ Status(last.stats) = "suspicious-skip"
     /\ current_nodes = last.current)
    => /\ Status(stats) = "suspicious-skip"
       /\ stats = last.stats
       /\ Exceeds(previous_nodes, current_nodes)

SnapshotStays ==
    Restart
    \/ (previous_nodes' # previous_nodes
        => pc = "persist" /\ ~Exceeds(previous_nodes, current_nodes))

\* C19: a check whose fetched set C is non-empty and exceeds the 50% gate
\* against the non-empty snapshot P reports suspicious-skip; the check after
\* a suspicious-skip check, fetching the same C, reports the same again; and
\* no step of the process replaces P unless it is the commit of a check
\* whose fetched set does not exceed the gate against P. So as long as the
\* checks fetch C, each is suspicious-skip and the snapshot stays P.
WithheldForever ==
    [](GateWithholds /\ WithheldAgain) /\ [][SnapshotStays]_vars

\* C19 witness: two checks in a row fetched the same set and both reported
\* suspicious-skip, the snapshot as it was.
WithheldForeverSeen ==
    /\ pc = "idle"
    /\ checks = 2
    /\ repeat
    /\ Status(last.stats) = "suspicious-skip"
    /\ Status(stats) = "suspicious-skip"
    /\ current_nodes = last.current
    /\ previous_nodes = {1, 2, 3}
    /\ current_nodes = {3}
    /\ state_file = Json(list(previous_nodes))

\* C20 as stated: when get_nodes_with_retry has returned the empty set, no
\* attempt gave a non-empty set; so when analyze_changes is about to report
\* critical-zero for the returned set, no attempt of the check gave a
\* non-empty set.
ZeroMeansNothingFetched ==
    pc = "analyze"
    => /\ current_nodes = {}
          => \A i \in DOMAIN all_results : all_results[i] = {}
       /\ Status(analyze_changes(first_run, previous_nodes,
                                 current_nodes).stats) = "critical-zero"
          => \A i \in DOMAIN all_results : all_results[i] = {}

\* C10 as stated: whatever the attempts did, no error leaves
\* get_nodes_with_retry, and it returns after exactly `retries` attempts.
FetchNeverFails ==
    /\ pc # "crashed"
    /\ pc = "analyze" => attempt = retries

====
